---- MODULE Spec2Model ----
(***************************************************************************)
(* A model of the copyright-certificate extractor: the page splitter and   *)
(* field extractor (scripts/parse_copyright.py), the record cleaner and    *)
(* tabulator (scripts/generate_excel.py) and the batch driver              *)
(* (scripts/batch_extract.py).                                             *)
(*                                                                         *)
(* A Python string is a sequence of characters; a character is one TLA+    *)
(* string.  ASCII characters stand for themselves.  The other characters   *)
(* are written in pinyin:                                                  *)
(*   deng ji hao           the label 登记号                                *)
(*   zhu zuo quan ren      the label 著作权人                              *)
(*   ruan jian ming cheng  the label 软件名称                              *)
(*   shou ci fa biao ri qi the label 首次发表日期                          *)
(*   quan li qu de fang shi  the label 权利取得方式                        *)
(*   quan li fan wei       the label 权利范围                              *)
(*   nian yue ri           年 月 日;  wei4 fa biao  未发表                 *)
(*   ban ben hao           版本号;  kai fa wan cheng2  开发完成            *)
(*   fcolon fsemi fcomma fstop   the full-width ： ； ， 。                *)
(*   fw1 sup2              the full-width digit １, the superscript ²      *)
(*   xuan fu (悬浮) ji1 (基) die (叠) zhe (折) you (又) qin (钦)           *)
(*   zhong (重) fa3 (法)      the characters of the OCR substitution table *)
(***************************************************************************)
EXTENDS Integers, Sequences, FiniteSets, TLC

SP == " "
NL == "\n"
TAB == "\t"

\* Python's str.isspace / the regex class \s, on the characters of the model.
IsSpace(c) == c \in {SP, NL, TAB}

\* The regex class [0-9].
IsDigit(c) == c \in {"0", "1", "2", "3", "4", "5", "6", "7", "8", "9"}

\* The regex class \d of a str pattern: the decimal digits of any script; of
\* the characters of the model, the ASCII digits and fw1, the full-width １.
IsDecimal(c) == IsDigit(c) \/ c = "fw1"

Min(S) == CHOOSE x \in S : \A y \in S : x <= y

\* s[i..] as a sequence (empty when i is past the end).
From(s, i) == SubSeq(s, i, Len(s))

\* str.startswith / the regex anchored at position i: does lit occur in t at i?
OccursAt(t, i, lit) ==
    /\ i >= 1
    /\ i + Len(lit) - 1 <= Len(t)
    /\ \A k \in 1..Len(lit) : t[i + k - 1] = lit[k]

\* substring test: lit in t
Contains(t, lit) == \E i \in 1..(Len(t) + 1) : OccursAt(t, i, lit)

\* str.strip()
RECURSIVE lstrip(_)
lstrip(s) == IF s # <<>> /\ IsSpace(Head(s)) THEN lstrip(Tail(s)) ELSE s

RECURSIVE rstrip(_)
rstrip(s) ==
    IF s # <<>> /\ IsSpace(s[Len(s)]) THEN rstrip(SubSeq(s, 1, Len(s) - 1)) ELSE s

strip(s) == rstrip(lstrip(s))

\* The end of the line that position i is on: the position of the next "\n"
\* at or after i, or Len(t) + 1.
LineEnd(t, i) == Min({j \in i..(Len(t) + 1) : j > Len(t) \/ t[j] = NL})

\* text.split('\n')
RECURSIVE SplitLines(_)
SplitLines(s) ==
    IF LineEnd(s, 1) > Len(s) THEN <<s>>
    ELSE <<SubSeq(s, 1, LineEnd(s, 1) - 1)>> \o SplitLines(From(s, LineEnd(s, 1) + 1))

\* '\n'.join(lines)
RECURSIVE JoinLines(_)
JoinLines(ls) ==
    IF ls = <<>> THEN <<>>
    ELSE IF Len(ls) = 1 THEN ls[1]
    ELSE ls[1] \o <<NL>> \o JoinLines(Tail(ls))

\* [line.strip() for line in text.split('\n') if line.strip()], joined by '\n'
stripped_lines(ls) ==
    SelectSeq([k \in 1..Len(ls) |-> strip(ls[k])], LAMBDA l : l # <<>>)
cleaned_text(text) == JoinLines(stripped_lines(SplitLines(text)))

(***************************************************************************)
(* Regular-expression matching, as Python's backtracking matcher does it.  *)
(***************************************************************************)

\* A greedy \s* from position i: the first position at or after i that is
\* past the end or holds no whitespace.
SkipSpaces(t, i) == Min({j \in i..(Len(t) + 1) : j > Len(t) \/ ~IsSpace(t[j])})

\* The characters of a label matched from position i, with \s* between
\* adjacent characters when spaced: the position after the label's last
\* character, or 0 when the label does not match at i.  No label character is
\* whitespace, so only the greedy choice of each \s* can succeed.
RECURSIVE MatchLabel(_, _, _, _)
MatchLabel(t, i, label, spaced) ==
    IF i > Len(t) \/ t[i] # Head(label) THEN 0
    ELSE IF Len(label) = 1 THEN i + 1
    ELSE MatchLabel(t, IF spaced THEN SkipSpaces(t, i + 1) ELSE i + 1,
                    Tail(label), spaced)

\* The ways \s*[seps]?\s* can match from position e, as <<e1, s, e2>>: the
\* first \s* ends before e1, the separator is taken (s = 1) or not (s = 0),
\* and the second \s* ends before e2, where the group starts.  Without a
\* separator class (seps = {}) this is \s*.
SepPaths(t, e, seps) ==
    {p \in (e..SkipSpaces(t, e)) \X {0, 1} \X (e..(Len(t) + 1)) :
        /\ p[2] = 1 => (p[1] <= Len(t) /\ t[p[1]] \in seps)
        /\ p[3] >= p[1] + p[2]
        /\ p[3] <= SkipSpaces(t, p[1] + p[2])}

\* The matcher's order of trial: a longer first \s*, then the separator taken
\* before it is left out, then a longer second \s*.
Earlier(p, q) ==
    \/ p[1] > q[1]
    \/ p[1] = q[1] /\ p[2] > q[2]
    \/ p[1] = q[1] /\ p[2] = q[2] /\ p[3] >= q[3]

\* the text [^\n]+ takes at p (greedy: to the end of the line)
Rest(t, p) == SubSeq(t, p, LineEnd(t, p) - 1)

\* the end of a greedy run of [0-9] from p (p itself when there is none)
DigitsEnd(t, p) == Min({j \in p..(Len(t) + 1) : j > Len(t) \/ ~IsDigit(t[j])})
\* the same for a run of \d
DecimalsEnd(t, p) == Min({j \in p..(Len(t) + 1) : j > Len(t) \/ ~IsDecimal(t[j])})

\* [0-9]{4}SR[0-9]+ at p: the position after the match, or 0
RegEnd(t, p) ==
    IF /\ p + 6 <= Len(t)
       /\ \A k \in 0..3 : IsDigit(t[p + k])
       /\ t[p + 4] = "S" /\ t[p + 5] = "R"
       /\ IsDigit(t[p + 6])
    THEN DigitsEnd(t, p + 6)
    ELSE 0

\* \d{1,2} followed by the character c, at p: the position after c, or 0
OneOrTwoDigitsThen(t, p, c) ==
    IF p + 2 <= Len(t) /\ IsDecimal(t[p]) /\ IsDecimal(t[p + 1]) /\ t[p + 2] = c
    THEN p + 3
    ELSE IF p + 1 <= Len(t) /\ IsDecimal(t[p]) /\ t[p + 1] = c THEN p + 2
    ELSE 0

\* \d{4}年\d{1,2}月 at p: the position after 月, or 0
YearMonthEnd(t, p) ==
    IF /\ p + 4 <= Len(t)
       /\ \A k \in 0..3 : IsDecimal(t[p + k])
       /\ t[p + 4] = "nian"
    THEN OneOrTwoDigitsThen(t, p + 5, "yue")
    ELSE 0
\* \d{1,2}日 after the month (m the position after 月, 0 when there is none)
DayEnd(t, m) == IF m = 0 THEN 0 ELSE OneOrTwoDigitsThen(t, m, "ri")
\* the first alternative if it matched (d its end), else 未发表
DateOr(t, p, d) ==
    IF d # 0 THEN d
    ELSE IF OccursAt(t, p, <<"wei4", "fa", "biao">>) THEN p + 3
    ELSE 0
\* A date pattern that does without the day.
DateEnd_without_day(t, p) == DateOr(t, p, YearMonthEnd(t, p))

\* (\d{4}年\d{1,2}月\d{1,2}日|未发表) at p: the position after the match, or 0
DateEnd(t, p) == DateOr(t, p, DayEnd(t, YearMonthEnd(t, p)))

\* The capturing group of a pattern at p: the position after what it takes,
\* or 0 when it does not match there.
\*   "rest"    ([^\n]+)
\*   "reg"     ([0-9]{4}SR[0-9]+)
\*   "date"    (\d{4}年\d{1,2}月\d{1,2}日|未发表)
\*   "digits6" (\d{6,})
GroupEnd(t, p, group) ==
    CASE group = "rest" -> IF p <= Len(t) /\ t[p] # NL THEN LineEnd(t, p) ELSE 0
      [] group = "reg" -> RegEnd(t, p)
      [] group = "date" -> DateEnd(t, p)
      [] group = "digits6" ->
            IF DecimalsEnd(t, p) - p >= 6 THEN DecimalsEnd(t, p) ELSE 0

\* The position where the group starts: that of the first path, in the order
\* of trial, at whose end the group matches; 0 when there is none.
FirstPathEnd(good) ==
    IF good = {} THEN 0
    ELSE (CHOOSE p \in good : \A q \in good : Earlier(p, q))[3]

\* \s*[seps]?\s*(group) from e, the position after the label (0: no label):
\* the position where the group starts, or 0.
ValueStart(t, e, seps, group) ==
    IF e = 0 THEN 0
    ELSE FirstPathEnd({p \in SepPaths(t, e, seps) : GroupEnd(t, p[3], group) # 0})

\* The least of a set of positions, 0 when it is empty.
MinOrZero(hits) == IF hits = {} THEN 0 ELSE Min(hits)

(***************************************************************************)
(* The field extractor, _parse_single_block.                               *)
(***************************************************************************)

\* The labels of the fields, as the patterns spell them.
labels ==
    [xuhao |-> <<"N", "o", ".">>,
     zhuzuoquanren |-> <<"zhu", "zuo", "quan", "ren">>,
     ruanjianmingcheng |-> <<"ruan", "jian", "ming", "cheng">>,
     shoucifabiaoriqi |-> <<"shou", "ci", "fa", "biao", "ri", "qi">>,
     quanliqudefangshi |-> <<"quan", "li", "qu", "de", "fang", "shi">>,
     quanlifanwei |-> <<"quan", "li", "fan", "wei">>,
     dengjihao |-> <<"deng", "ji", "hao">>]

\* The separator classes [:：;], [:：;,] and [:：] that follow a label.
Seps3 == {":", "fcolon", ";"}
Seps4 == {":", "fcolon", ";", ","}
Seps2 == {":", "fcolon"}

\* The seven patterns: the label, whether \s* stands between its characters,
\* the optional separator class after it, and the capturing group.
\*   登\s*记\s*号\s*[:：;]?\s*([0-9]{4}SR[0-9]+)
\*   No\.\s*(\d{6,})
\*   著\s*作\s*权\s*人\s*[:：;,]?\s*([^\n]+)
\*   软\s*件\s*名\s*称\s*[:：;,]?\s*([^\n]+)        (group 1)
\*   首次发表日期\s*[:：;,]?\s*(\d{4}年\d{1,2}月\d{1,2}日|未发表)
\*   权利取得方式\s*[:：;,]?\s*([^\n]+)
\*   权\s*利\s*范\s*围\s*[:：;,]?\s*([^\n]+)
patterns ==
    [dengjihao |-> [label |-> labels.dengjihao, spaced |-> TRUE,
                    seps |-> Seps3, group |-> "reg"],
     xuhao |-> [label |-> labels.xuhao, spaced |-> FALSE,
                seps |-> {}, group |-> "digits6"],
     zhuzuoquanren |-> [label |-> labels.zhuzuoquanren, spaced |-> TRUE,
                        seps |-> Seps4, group |-> "rest"],
     ruanjianmingcheng |-> [label |-> labels.ruanjianmingcheng, spaced |-> TRUE,
                            seps |-> Seps4, group |-> "rest"],
     shoucifabiaoriqi |-> [label |-> labels.shoucifabiaoriqi, spaced |-> FALSE,
                           seps |-> Seps4, group |-> "date"],
     quanliqudefangshi |-> [label |-> labels.quanliqudefangshi, spaced |-> FALSE,
                            seps |-> Seps4, group |-> "rest"],
     quanlifanwei |-> [label |-> labels.quanlifanwei, spaced |-> TRUE,
                       seps |-> Seps4, group |-> "rest"]]

\* The pattern tried at position s: where its group starts, or 0.
match_at(t, s, pat) ==
    ValueStart(t, MatchLabel(t, s, pat.label, pat.spaced), pat.seps, pat.group)

\* re.search(pattern, cleaned_text): where the leftmost match starts, or 0.
search(t, pat) == MinOrZero({s \in 1..Len(t) : match_at(t, s, pat) # 0})

\* Where group 1 of the match starts (0: no match), and match.group(1); the
\* group is never empty, so the empty string stands for "no match".
group_start(t, s, pat) == IF s = 0 THEN 0 ELSE match_at(t, s, pat)
group1_start(t, pat) == group_start(t, search(t, pat), pat)
capture(t, p, group) ==
    IF p = 0 THEN <<>> ELSE SubSeq(t, p, GroupEnd(t, p, group) - 1)
group1(t, pat) == capture(t, group1_start(t, pat), pat.group)

reg_match(t) == group1(t, patterns.dengjihao)
serial_match(t) == group1(t, patterns.xuhao)

\* re.sub(r'^[:：,，.\-]\s*', '', raw_owner)
strip_owner_lead(raw) ==
    IF raw # <<>> /\ raw[1] \in {":", "fcolon", ",", "fcomma", ".", "-"}
    THEN From(raw, SkipSpaces(raw, 2))
    ELSE raw

owner_match(t) == strip_owner_lead(strip(group1(t, patterns.zhuzuoquanren)))

\* A check of the next line that leaves 首次发表 out.
is_new_field_no_date(part2) ==
    \/ OccursAt(part2, 1, labels.zhuzuoquanren)
    \/ OccursAt(part2, 1, <<"ban", "ben", "hao">>)
    \/ (Len(part2) >= 2 /\ part2[1] = "V" /\ IsDecimal(part2[2]))
    \/ OccursAt(part2, 1, <<"quan", "li">>)
    \/ OccursAt(part2, 1, <<"kai", "fa", "wan", "cheng2">>)

\* re.match(r'(著作权人|版本号|V\d|首次发表|权利|开发完成)', part2)
is_new_field(part2) ==
    \/ OccursAt(part2, 1, labels.zhuzuoquanren)
    \/ OccursAt(part2, 1, <<"ban", "ben", "hao">>)
    \/ (Len(part2) >= 2 /\ part2[1] = "V" /\ IsDecimal(part2[2]))
    \/ OccursAt(part2, 1, <<"shou", "ci", "fa", "biao">>)
    \/ OccursAt(part2, 1, <<"quan", "li">>)
    \/ OccursAt(part2, 1, <<"kai", "fa", "wan", "cheng2">>)

\* re.sub(r'^[:：]\s*', '', part2)
strip_colon_lead(part2) ==
    IF part2 # <<>> /\ part2[1] \in Seps2
    THEN From(part2, SkipSpaces(part2, 2))
    ELSE part2

\* The name out of the two groups of the name pattern: group 1, and the
\* following line (group 2) unless it starts a new field.
joined_name(part1, group2, part2) ==
    IF group2 # <<>> /\ ~is_new_field(part2)
    THEN part1 \o <<SP>> \o strip_colon_lead(part2)
    ELSE part1
full_name(g1, g2) == joined_name(strip(g1), g2, strip(g2))

\* The optional part (?:\n\s*[:：]?\s*([^\n]+))? of the name pattern, tried at
\* q, the end of group 1's line: group 2 (None is written as the empty
\* string, which "if part2" treats alike).
name_group2(t, q) ==
    IF q > Len(t) THEN <<>> ELSE capture(t, ValueStart(t, q + 1, Seps2, "rest"), "rest")
name_found(t, p1) ==
    IF p1 = 0 THEN <<>>
    ELSE full_name(Rest(t, p1), name_group2(t, LineEnd(t, p1)))
name_match(t) == name_found(t, group1_start(t, patterns.ruanjianmingcheng))

date_match(t) == group1(t, patterns.shoucifabiaoriqi)
method_match(t) == strip(group1(t, patterns.quanliqudefangshi))
scope_match(t) == strip(group1(t, patterns.quanlifanwei))

\* _parse_single_block(text): the seven fields of one page.  Every pattern is
\* searched in the same normalised text; a pattern that does not match leaves
\* its field empty.  No pattern raises on any string, so the except branch
\* (ParsingError) is never taken.
extract_fields(t) ==
    [xuhao |-> serial_match(t),
     zhuzuoquanren |-> owner_match(t),
     ruanjianmingcheng |-> name_match(t),
     shoucifabiaoriqi |-> date_match(t),
     quanliqudefangshi |-> method_match(t),
     quanlifanwei |-> scope_match(t),
     dengjihao |-> reg_match(t)]
_parse_single_block(text) == extract_fields(cleaned_text(text))

(***************************************************************************)
(* The page splitter and the orchestration, parse_copyright_text.          *)
(***************************************************************************)

\* --- Page \d+ --- at s: the position after the delimiter, or 0
delim_at(t, s) ==
    IF /\ OccursAt(t, s, <<"-", "-", "-", " ", "P", "a", "g", "e", " ">>)
       /\ DecimalsEnd(t, s + 9) > s + 9
       /\ OccursAt(t, DecimalsEnd(t, s + 9), <<" ", "-", "-", "-">>)
    THEN DecimalsEnd(t, s + 9) + 4
    ELSE 0

\* re.split(r'--- Page \d+ ---', text): the segments around the delimiters,
\* the one before the first delimiter included (empty when the text starts
\* with a delimiter).
\* where the leftmost delimiter starts, or 0
delim_start(t) == MinOrZero({s \in 1..Len(t) : delim_at(t, s) # 0})
RECURSIVE re_split(_)
re_split(t) ==
    IF delim_start(t) = 0 THEN <<t>>
    ELSE <<SubSeq(t, 1, delim_start(t) - 1)>>
         \o re_split(From(t, delim_at(t, delim_start(t))))

\* A check that only catches the empty string.
is_blank_empty_only(text) == text = <<>>

\* not text or not text.strip()
is_blank(text) == text = <<>> \/ strip(text) = <<>>

\* A test that is content with any field of the record.
any_field(data) == \E f \in DOMAIN data : data[f] # <<>>

\* any([data["序号"], data["登记号"], data["软件名称"], data["著作权人"]])
any_key_field(data) ==
    \/ data.xuhao # <<>>
    \/ data.dengjihao # <<>>
    \/ data.ruanjianmingcheng # <<>>
    \/ data.zhuzuoquanren # <<>>

\* A loop that does not skip the empty segments.
page_blocks_all(pages) == pages

\* The loop's "if not page.strip(): continue": the segments that are parsed.
page_blocks(pages) == SelectSeq(pages, LAMBDA page : strip(page) # <<>>)

\* A loop that puts every new record at the front of the list.
page_results_newest_first(blocks) ==
    SelectSeq([k \in 1..Len(blocks) |->
                  _parse_single_block(blocks[Len(blocks) + 1 - k])],
              any_key_field)

\* The loop over the pages: the record of every parsed page that has a key
\* field, in page order.
page_results(blocks) ==
    SelectSeq([k \in 1..Len(blocks) |-> _parse_single_block(blocks[k])],
              any_key_field)

\* "if not results and text.strip()": the whole text is parsed as one block.
takes_fallback(results, text) == results = <<>> /\ strip(text) # <<>>

\* The end of parse_copyright_text: no record raises ValidationError
\* (finish_without_check: an end that returns the list whatever it holds).
\* What the call did is kept beside what it returns: raised ("none" when it
\* returned), results (the list returned), split (re.split was reached),
\* blocks (the page blocks given to _parse_single_block, in order) and
\* fallback (the whole text was parsed as one block).
finish_without_check(results, blocks, fallback) ==
    [raised |-> "none", results |-> results, split |-> TRUE, blocks |-> blocks,
     fallback |-> fallback]

finish(results, blocks, fallback) ==
    [raised |-> IF results = <<>> THEN "ValidationError" ELSE "none",
     results |-> results, split |-> TRUE, blocks |-> blocks,
     fallback |-> fallback]

\* parse_copyright_text(text).  The "except Exception" branch (ParsingError)
\* needs _parse_single_block or re.split to raise, which they do not.
\* The fallback: the record of the whole text, added if it has a key field.
fallback_results(results, whole) ==
    IF any_key_field(whole) THEN <<whole>> ELSE results
after_pages(text, blocks, results) ==
    IF takes_fallback(results, text)
    THEN finish(fallback_results(results, _parse_single_block(text)), blocks, TRUE)
    ELSE finish(results, blocks, FALSE)
parse_pages(text, blocks) == after_pages(text, blocks, page_results(blocks))
parse_copyright_text(text) ==
    IF is_blank(text)
    THEN [raised |-> "ValidationError", results |-> <<>>, split |-> FALSE,
          blocks |-> <<>>, fallback |-> FALSE]
    ELSE parse_pages(text, page_blocks(re_split(text)))

(***************************************************************************)
(* The record cleaner and the tabulator, generate_excel.py.                *)
(***************************************************************************)

DQ == "\""

\* str.replace(old, new), old not empty: leftmost occurrences, not overlapping
RECURSIVE replace(_, _, _)
replace(s, old, new) ==
    IF s = <<>> THEN <<>>
    ELSE IF OccursAt(s, 1, old) THEN new \o replace(From(s, Len(old) + 1), old, new)
    ELSE <<Head(s)>> \o replace(Tail(s), old, new)

\* The noise characters removed first: | ， 。 "
remove_noise(s) ==
    SelectSeq(s, LAMBDA c : c \notin {"|", "fcomma", "fstop", DQ})

\* The class [,，.:：;；\s] of the two edge patterns.
IsEdge(c) == c \in {",", "fcomma", ".", ":", "fcolon", ";", "fsemi"} \/ IsSpace(c)

\* re.sub(r'^[,，.:：;；\s]+', '', text)
RECURSIVE strip_lead(_)
strip_lead(s) == IF s # <<>> /\ IsEdge(Head(s)) THEN strip_lead(Tail(s)) ELSE s

\* re.sub(r'[,，.:：;；\s]+$', '', text)
RECURSIVE strip_trail(_)
strip_trail(s) ==
    IF s # <<>> /\ IsEdge(s[Len(s)]) THEN strip_trail(SubSeq(s, 1, Len(s) - 1)) ELSE s

\* text.strip(), then the leading run and the trailing run removed
strip_edges(s) == strip_trail(strip_lead(strip(s)))

\* re.sub(r'\s+', ' ', text)
RECURSIVE collapse_spaces(_)
collapse_spaces(s) ==
    IF s = <<>> THEN <<>>
    ELSE IF IsSpace(Head(s)) THEN <<SP>> \o collapse_spaces(From(s, SkipSpaces(s, 1)))
    ELSE <<Head(s)>> \o collapse_spaces(Tail(s))

\* The table of OCR misreadings, applied in sequence:
\* 基浮 -> 悬浮, 折又 -> 折叠, 钦件 -> 软件, 重法 -> 方法
fix_ocr_errors(s) ==
    replace(replace(replace(replace(s,
        <<"ji1", "fu">>, <<"xuan", "fu">>),
        <<"zhe", "you">>, <<"zhe", "die">>),
        <<"qin", "jian">>, <<"ruan", "jian">>),
        <<"zhong", "fa3">>, <<"fang", "fa3">>)

\* A cleaner that strips the edges before it removes the noise characters.
clean_text_edges_first(text) ==
    IF text = <<>> THEN <<>>
    ELSE strip(fix_ocr_errors(collapse_spaces(remove_noise(strip_edges(text)))))

\* clean_text(text)
clean_text(text) ==
    IF text = <<>> THEN <<>>
    ELSE strip(fix_ocr_errors(collapse_spaces(strip_edges(remove_noise(text)))))

\* validate_and_clean_data(data): the five text fields and the registration
\* number cleaned (the number is kept whether or not it has the expected
\* form), and the cleaned serial number kept as _原始序号 (yuanshi_xuhao).
validate_and_clean_data(data) ==
    [zhuzuoquanren |-> clean_text(data.zhuzuoquanren),
     ruanjianmingcheng |-> clean_text(data.ruanjianmingcheng),
     shoucifabiaoriqi |-> clean_text(data.shoucifabiaoriqi),
     quanliqudefangshi |-> clean_text(data.quanliqudefangshi),
     quanlifanwei |-> clean_text(data.quanlifanwei),
     dengjihao |-> clean_text(data.dengjihao),
     yuanshi_xuhao |-> clean_text(data.xuhao)]

\* A filter that counts the serial number as a key field, as the parser does.
is_kept_with_serial(cleaned) ==
    \/ cleaned.ruanjianmingcheng # <<>>
    \/ cleaned.zhuzuoquanren # <<>>
    \/ cleaned.dengjihao # <<>>
    \/ cleaned.yuanshi_xuhao # <<>>

\* any([cleaned.get('软件名称'), cleaned.get('著作权人'), cleaned.get('登记号')])
is_kept(cleaned) ==
    \/ cleaned.ruanjianmingcheng # <<>>
    \/ cleaned.zhuzuoquanren # <<>>
    \/ cleaned.dengjihao # <<>>

\* A first loop that puts the records with a serial number before the others.
cleaned_data_serial_first(data_list) ==
    SelectSeq(SelectSeq([k \in 1..Len(data_list) |->
                            validate_and_clean_data(data_list[k])], is_kept),
              LAMBDA c : c.yuanshi_xuhao # <<>>)
    \o SelectSeq(SelectSeq([k \in 1..Len(data_list) |->
                               validate_and_clean_data(data_list[k])], is_kept),
                 LAMBDA c : c.yuanshi_xuhao = <<>>)

\* The first loop of generate_excel: the cleaned records that are kept.
cleaned_data(data_list) ==
    SelectSeq([k \in 1..Len(data_list) |-> validate_and_clean_data(data_list[k])],
              is_kept)

\* A numbering that starts from the sheet row, not from 1.
auto_number_sheet_row(row_idx) == row_idx

\* auto_number = row_idx - 1, for the sheet row row_idx (the rows start at 2)
auto_number(row_idx) == row_idx - 1

\* f"原序号: {...}" if item.get('_原始序号') else ""
beizhu(item) ==
    IF item.yuanshi_xuhao # <<>>
    THEN <<"yuan", "xu", "hao", ":", " ">> \o item.yuanshi_xuhao
    ELSE <<>>

\* The row written for the item at sheet row row_idx.
row_data(row_idx, item) ==
    [xuhao |-> auto_number(row_idx),
     zhuzuoquanren |-> item.zhuzuoquanren,
     ruanjianmingcheng |-> item.ruanjianmingcheng,
     shoucifabiaoriqi |-> item.shoucifabiaoriqi,
     quanliqudefangshi |-> item.quanliqudefangshi,
     quanlifanwei |-> item.quanlifanwei,
     dengjihao |-> item.dengjihao,
     beizhu |-> beizhu(item)]

\* generate_excel(output_file, data_list): the data rows of the sheet, in
\* sheet order (row 2 first).
write_rows(kept) == [k \in 1..Len(kept) |-> row_data(k + 1, kept[k])]
generate_excel(data_list) == write_rows(cleaned_data(data_list))

(***************************************************************************)
(* The batch driver, batch_extract.                                        *)
(***************************************************************************)

\* file_path.suffix.lower() in supported_extensions
supported_extensions == {".pdf", ".png", ".jpg", ".jpeg", ".bmp", ".tiff", ".tif"}
\* is_image_file
image_extensions == {".jpg", ".jpeg", ".png", ".bmp", ".tiff", ".tif"}

\* current_name.replace(' ', '').replace('\t', '').replace('\n', '')
remove_spaces(s) == SelectSeq(s, LAMBDA c : c \notin {SP, TAB, NL})

\* is_bad_name, for the record's 软件名称
is_bad_name(name) ==
    \/ strip(name) = <<>>
    \/ Len(strip(name)) < 4
    \/ \E kw \in {labels.zhuzuoquanren, labels.ruanjianmingcheng, labels.dengjihao} :
          Contains(remove_spaces(strip(name)), kw)

\* The body of "for data in data_list": the file's name attached and, for an
\* image file with a bad name, the software name replaced by the file's stem.
\* A loop that takes the file name for a bad name whatever the file is.
with_file_info_any_suffix(data, file) ==
    [file_name |-> file.stem \o file.suffix_chars]
    @@ (IF is_bad_name(data.ruanjianmingcheng)
        THEN [data EXCEPT !.ruanjianmingcheng = file.stem]
        ELSE data)

with_file_info(data, file) ==
    [file_name |-> file.stem \o file.suffix_chars]
    @@ (IF file.suffix \in image_extensions /\ is_bad_name(data.ruanjianmingcheng)
        THEN [data EXCEPT !.ruanjianmingcheng = file.stem]
        ELSE data)

\* The records one file adds to results.  The loop assigns into the
\* dictionaries parse_copyright_text returned and appends those same
\* dictionaries: an element of this list is a returned dictionary as it is
\* after the loop.
file_records(data_list, file) ==
    [k \in 1..Len(data_list) |-> with_file_info(data_list[k], file)]

(***************************************************************************)
(* State.                                                                  *)
(***************************************************************************)
VARIABLES
    pc,              \* where the run is: "start", "done", "aborted", ...
    text,            \* the raw text given to the parser or the cleaner
    doc,             \* the preamble and pages the raw text is made of
    page,            \* the field lines the page text is made of
    gaps,            \* the whitespace OCR put between a label's characters
    data,            \* what _parse_single_block returned
    parsed,          \* what parse_copyright_text did and returned
    cleaned,         \* the successive results of clean_text
    data_list,       \* the list given to generate_excel
    rows,            \* the data rows generate_excel wrote
    files,           \* batch_extract: the folder's entries, in iterdir order
    next_file,       \* batch_extract: the entry the loop is at
    results,         \* batch_extract: results
    processed_count, \* batch_extract: processed_count
    error,           \* batch_extract: the exception that ended it, or "none"
    field,           \* validate_field: the argument field_name
    field_value,     \* validate_field: the argument value
    is_valid,        \* validate_field: what it returned
    cli,             \* __main__: the command line and what the run meets
    exit_status,     \* __main__: the status the process ended with
    images,          \* extract_text_from_pdf: the pages, with what OCR does
    page_no,         \* extract_text_from_pdf: the page the loop is at
    full_text        \* extract_text_from_pdf: full_text

vars == <<pc, text, doc, page, gaps, data, parsed, cleaned, data_list, rows,
          files, next_file, results, processed_count, error,
          field, field_value, is_valid, cli, exit_status,
          images, page_no, full_text>>

parseVars == <<text, doc, page, gaps, data, parsed>>
cleanVars == <<cleaned, data_list, rows>>
batchVars == <<files, next_file, results, processed_count, error>>
pdfVars == <<images, page_no, full_text>>
toolVars == <<field, field_value, is_valid, cli, exit_status, pdfVars>>

\* The values of the variables a specification does not use.
IdleParse ==
    /\ text = <<>> /\ doc = <<>> /\ page = <<>> /\ gaps = <<>>
    /\ data = <<>> /\ parsed = <<>>
IdleClean == cleaned = <<>> /\ data_list = <<>> /\ rows = <<>>
IdleBatch ==
    /\ files = <<>> /\ next_file = 1 /\ results = <<>>
    /\ processed_count = 0 /\ error = "none"

IdleValidate == field = "" /\ field_value = <<>> /\ is_valid = FALSE
IdleCli == cli = <<>> /\ exit_status = 0
IdlePdf == images = <<>> /\ page_no = 1 /\ full_text = <<>>
IdleTool == IdleValidate /\ IdleCli /\ IdlePdf

\* Every sequence over S of length at most n.
SeqsUpTo(S, n) == UNION {[1..k -> S] : k \in 0..n}

(***************************************************************************)
(* batch_extract over a folder.  An entry is a file with its stem, its     *)
(* suffix and what OCR does on it: extract_text raises OCRError, or OCR    *)
(* gives a text (for a PDF, the text extract_text_from_pdf has put         *)
(* together from its pages).                                               *)
(***************************************************************************)
MaxFiles == 2

\* A certificate line as OCR returns it: "<label>:<value>".
T_line(f, value) == labels[f] \o <<":">> \o value
T_delim(d) == <<"-", "-", "-", " ", "P", "a", "g", "e", " ", d, " ", "-", "-", "-">>

\* The texts OCR gives in the batch: none; whitespace alone; a PDF page of
\* whitespace under its delimiter; one certificate; one certificate
\* with a short name; no certificate field at all; two pages, two
\* certificates; a name that is a label and a value (软件名称:软件名称:X); a name
\* followed by an owner line whose label OCR has spaced (著 作权人:C).
BatchTexts ==
    {<<>>,
     <<SP, NL>>,
     T_delim("1") \o <<NL, SP, NL>>,
     T_line("ruanjianmingcheng", T_line("ruanjianmingcheng", <<"X">>)),
     T_line("ruanjianmingcheng", <<"A", "B">>) \o <<NL>>
        \o <<"zhu", SP, "zuo", "quan", "ren", ":", "C">>,
     T_line("zhuzuoquanren", <<"A">>) \o <<NL>>
        \o T_line("ruanjianmingcheng", <<"A", "B", "C", "D">>),
     T_line("ruanjianmingcheng", <<"A", "B">>),
     <<"A", "B">>,
     T_delim("1") \o <<NL>> \o T_line("zhuzuoquanren", <<"A">>) \o <<NL>>
        \o T_delim("2") \o <<NL>> \o T_line("zhuzuoquanren", <<"B">>) \o <<NL>>}

SuffixChars(suffix) ==
    CASE suffix = ".pdf" -> <<".", "p", "d", "f">>
      [] suffix = ".png" -> <<".", "p", "n", "g">>
      [] OTHER -> <<".", "t", "x", "t">>

\* The entries a folder may hold.  A file on which extract_text raises
\* returns no text, and extract_text is not called on a .txt file (one entry
\* stands for all of them).  The text of a PDF is empty (no page) or holds a
\* delimiter, so it is never whitespace alone; the text under a delimiter is
\* a PDF's.
FilePool ==
    {f \in [stem : {<<"c", "e", "r", "t">>}, suffix : {".pdf", ".png", ".txt"},
            suffix_chars : {SuffixChars(sfx) : sfx \in {".pdf", ".png", ".txt"}},
            ocr_raises : BOOLEAN, ocr_text : BatchTexts] :
        /\ f.suffix_chars = SuffixChars(f.suffix)
        /\ f.ocr_raises => f.ocr_text = <<>>
        /\ f.suffix = ".txt" => f.ocr_raises
        /\ f.suffix = ".pdf" => f.ocr_text # <<SP, NL>>
        /\ f.ocr_text = T_delim("1") \o <<NL, SP, NL>> => f.suffix = ".pdf"}

\* An extract_text that returns whatever OCR gave.
extract_text_as_read(file) == file.ocr_text

\* extract_text(file_path, lang) when it returns: for an image the OCR text,
\* or "" when that text is blank (extract_text_from_image); for a PDF the
\* text put together by extract_text_from_pdf.
extract_text(file) ==
    IF file.suffix # ".pdf" /\ strip(file.ocr_text) = <<>>
    THEN <<>>
    ELSE file.ocr_text

InitBatch ==
    /\ pc = "start"
    /\ files \in SeqsUpTo(FilePool, MaxFiles)
    /\ next_file = 1 /\ results = <<>> /\ processed_count = 0 /\ error = "none"
    /\ IdleParse /\ IdleClean /\ IdleTool

InLoop == pc = "start" /\ next_file <= Len(files)
File == files[next_file]

\* An entry that is no supported file: the loop goes on.
SkipUnsupported ==
    /\ InLoop
    /\ File.suffix \notin supported_extensions
    /\ next_file' = next_file + 1
    /\ UNCHANGED <<pc, results, processed_count, error, parseVars, cleanVars, files, toolVars>>

\* extract_text raises OCRError: nothing in batch_extract catches it.
OcrRaises ==
    /\ InLoop
    /\ File.suffix \in supported_extensions
    /\ File.ocr_raises
    /\ pc' = "aborted"
    /\ error' = "OCRError"
    /\ UNCHANGED <<next_file, results, processed_count, parseVars, cleanVars, files, toolVars>>

\* "if not text": a warning, and the loop goes on.
NoText ==
    /\ InLoop
    /\ File.suffix \in supported_extensions
    /\ ~File.ocr_raises
    /\ extract_text(File) = <<>>
    /\ next_file' = next_file + 1
    /\ UNCHANGED <<pc, results, processed_count, error, parseVars, cleanVars, files, toolVars>>

\* The call of parse_copyright_text on the file's text.
FileParse == parse_copyright_text(extract_text(File))

\* parse_copyright_text raises: nothing in batch_extract catches it.
ParseRaises ==
    /\ InLoop
    /\ File.suffix \in supported_extensions
    /\ ~File.ocr_raises
    /\ extract_text(File) # <<>>
    /\ FileParse.raised # "none"
    /\ error' = FileParse.raised
    /\ pc' = "aborted"
    /\ UNCHANGED <<next_file, results, processed_count, parseVars, cleanVars, files, toolVars>>

\* The file's records are added to results (a returned list is never empty,
\* so the "if not data_list" branch is not taken).
AddRecords ==
    /\ InLoop
    /\ File.suffix \in supported_extensions
    /\ ~File.ocr_raises
    /\ extract_text(File) # <<>>
    /\ FileParse.raised = "none"
    /\ results' = results \o file_records(FileParse.results, File)
    /\ processed_count' = processed_count + 1
    /\ next_file' = next_file + 1
    /\ UNCHANGED <<pc, error, parseVars, cleanVars, files, toolVars>>

\* After the loop: "if results: generate_excel(output_excel, results)".
EndBatch ==
    /\ pc = "start"
    /\ next_file > Len(files)
    /\ pc' = "done"
    /\ IF results # <<>>
       THEN data_list' = results /\ rows' = generate_excel(results)
       ELSE UNCHANGED <<data_list, rows>>
    /\ UNCHANGED <<cleaned, parseVars, batchVars, toolVars>>

NextBatch ==
    \/ SkipUnsupported
    \/ OcrRaises
    \/ NoText
    \/ ParseRaises
    \/ AddRecords
    \/ EndBatch

SpecBatch == InitBatch /\ [][NextBatch]_vars

\* The records batch_extract has to hand to generate_excel when no file's
\* failure stops it: those of every supported file whose text parses, in
\* folder order.
RECURSIVE ExpectedRecords(_)
ExpectedRecords(fs) ==
    IF fs = <<>> THEN <<>>
    ELSE (IF /\ Head(fs).suffix \in supported_extensions
             /\ ~Head(fs).ocr_raises
             /\ parse_copyright_text(Head(fs).ocr_text).raised = "none"
          THEN file_records(parse_copyright_text(Head(fs).ocr_text).results, Head(fs))
          ELSE <<>>) \o ExpectedRecords(Tail(fs))

\* C1: a failure on one input file (extract_text raising an OCR error, or
\* parse_copyright_text raising ValidationError or ParsingError) never aborts
\* the batch: when batch_extract has ended, the records of every other
\* supported file have been handed to generate_excel.
C1_FailureNeverAbortsBatch ==
    pc \in {"done", "aborted"} => data_list = ExpectedRecords(files)

\* The records a step of the loop has added, and the records the parser
\* returned for the file of that step.
Added == SubSeq(results', Len(results) + 1, Len(results'))
Extracted == parse_copyright_text(File.ocr_text).results

\* C23: no record is changed in place after the extractor has made it: the
\* dictionaries parse_copyright_text returned for a file have, once
\* batch_extract has put them in results, the keys and values they were
\* returned with, and generate_excel leaves the records of results as they
\* are.
C23_ReturnedRecordsKeepKeysAndValues ==
    [][/\ Len(results') > Len(results) => Added = Extracted
       /\ SubSeq(results', 1, Len(results)) = results]_vars

\* C26: in batch_extract an OCR result that is empty or whitespace alone is
\* no text: the file is skipped, it adds no record, parse_copyright_text is
\* not called on it (the call would raise ValidationError and end the run),
\* and the loop goes on with the next file.
C26_BlankOcrResultIsNoText ==
    [][(/\ InLoop
        /\ File.suffix \in supported_extensions
        /\ ~File.ocr_raises
        /\ \A i \in 1..Len(File.ocr_text) : File.ocr_text[i] \in {SP, TAB, NL}) =>
          /\ next_file' = next_file + 1
          /\ results' = results
          /\ processed_count' = processed_count
          /\ pc' = "start" /\ error' = "none"]_vars

\* an image on which OCR gave whitespace alone was skipped, and the image
\* after it gave its record
C26_Witness ==
    /\ pc = "done"
    /\ Len(files) = 2
    /\ files[1].suffix = ".png" /\ files[1].ocr_text = <<SP, NL>>
    /\ files[2].suffix = ".png" /\ ~files[2].ocr_raises
    /\ Len(results) = 1
    /\ processed_count = 1
    /\ results[1].zhuzuoquanren = <<"A">>
    /\ Len(rows) = 1

\* The labels 著作权人, 软件名称, 登记号.
NameLabels == {labels.zhuzuoquanren, labels.ruanjianmingcheng, labels.dengjihao}

MaxRecords == 3

\* The key fields of a record (software name, owner, registration number):
\* none; one of them; all three noise that cleaning removes; all three.
KeyPool ==
    {<<<<>>, <<>>, <<>>>>,
     <<<<"A", "B">>, <<>>, <<>>>>,
     <<<<>>, <<"B">>, <<>>>>,
     <<<<>>, <<>>, <<"2", "0", "2", "1", "S", "R", "1">>>>,
     <<<<",", SP>>, <<"|">>, <<"fstop", ";">>>>,
     <<<<SP, "qin", "jian", "|", "A">>, <<"B", "fcomma">>,
       <<"2", "0", "2", "1", "S", "R", "1", ".">>>>}

\* The other fields (serial number, date, method, scope): empty, or all set.
OtherPool ==
    {<<<<>>, <<>>, <<>>, <<>>>>,
     <<<<"1", "2", "3", "4", "5", "6">>, <<"wei4", "fa", "biao">>,
       <<"A">>, <<"B", ".">>>>}

RecordPool ==
    {[xuhao |-> o[1], zhuzuoquanren |-> k[2], ruanjianmingcheng |-> k[1],
      shoucifabiaoriqi |-> o[2], quanliqudefangshi |-> o[3],
      quanlifanwei |-> o[4], dengjihao |-> k[3]] : k \in KeyPool, o \in OtherPool}

InitExcel ==
    /\ pc = "start"
    /\ data_list \in SeqsUpTo(RecordPool, MaxRecords)
    /\ rows = <<>> /\ cleaned = <<>>
    /\ IdleParse /\ IdleBatch /\ IdleTool

GenerateExcel ==
    /\ pc = "start"
    /\ rows' = generate_excel(data_list)
    /\ pc' = "done"
    /\ UNCHANGED <<data_list, cleaned, parseVars, batchVars, toolVars>>

NextExcel == GenerateExcel

SpecExcel == InitExcel /\ [][NextExcel]_vars

\* The record's three key fields are all empty after cleaning.
AllKeysEmpty(r) ==
    /\ clean_text(r.ruanjianmingcheng) = <<>>
    /\ clean_text(r.zhuzuoquanren) = <<>>
    /\ clean_text(r.dengjihao) = <<>>

\* The positions in data_list of the records that survive the discard filter.
Survivors == {k \in 1..Len(data_list) : ~AllKeysEmpty(data_list[k])}

\* The position in data_list of the i-th survivor.
SurvivorAt(i) ==
    CHOOSE k \in Survivors : Cardinality({j \in Survivors : j <= k}) = i

\* C2: the display numbers (column 序号) of the emitted rows are exactly
\* 1, 2, ..., N, N the number of records that survive the discard filter, and
\* they increase in the order the surviving records have in the input list:
\* row i carries number i and the fields of the i-th surviving record.
C2_DisplayNumbersContiguous ==
    pc = "done" =>
        /\ Len(rows) = Cardinality(Survivors)
        /\ \A i \in 1..Len(rows) :
              /\ rows[i].xuhao = i
              /\ rows[i].zhuzuoquanren
                    = clean_text(data_list[SurvivorAt(i)].zhuzuoquanren)
              /\ rows[i].ruanjianmingcheng
                    = clean_text(data_list[SurvivorAt(i)].ruanjianmingcheng)
              /\ rows[i].dengjihao = clean_text(data_list[SurvivorAt(i)].dengjihao)

\* A discarded record lies between two emitted ones, which are numbered 1, 2.
C2_Witness ==
    /\ pc = "done"
    /\ Len(data_list) = 3
    /\ Survivors = {1, 3}
    /\ Len(rows) = 2
    /\ rows[2].xuhao = 2

\* The emitted rows, without their numbers and notes.
RowKeys(r) == <<r.ruanjianmingcheng, r.zhuzuoquanren, r.dengjihao>>

\* C3: a record whose software name, owner and registration number are all
\* empty after cleaning is never emitted, whatever its other fields hold, and
\* every record with one of the three non-empty after cleaning is emitted:
\* no emitted row has the three empty, and the emitted rows are, in order,
\* the records with a non-empty key field.
C3_DiscardRule ==
    pc = "done" =>
        /\ \A i \in 1..Len(rows) : RowKeys(rows[i]) # <<<<>>, <<>>, <<>>>>
        /\ Len(rows) = Cardinality(Survivors)
        /\ \A i \in 1..Len(rows) :
              RowKeys(rows[i]) =
                  <<clean_text(data_list[SurvivorAt(i)].ruanjianmingcheng),
                    clean_text(data_list[SurvivorAt(i)].zhuzuoquanren),
                    clean_text(data_list[SurvivorAt(i)].dengjihao)>>

\* A record with noise in its key fields and all its other fields set is
\* dropped, and a record with only its owner set is emitted.
C3_Witness ==
    /\ pc = "done"
    /\ \E k \in 1..Len(data_list) :
          /\ AllKeysEmpty(data_list[k])
          /\ data_list[k].ruanjianmingcheng # <<>>
          /\ data_list[k].xuhao # <<>>
          /\ data_list[k].quanlifanwei # <<>>
    /\ \E k \in Survivors :
          /\ data_list[k].ruanjianmingcheng = <<>>
          /\ data_list[k].dengjihao = <<>>
    /\ Len(rows) = 1

\* A row without its note: the display number and the six fields.
Numbered(r) ==
    <<r.xuhao, r.zhuzuoquanren, r.ruanjianmingcheng, r.shoucifabiaoriqi,
      r.quanliqudefangshi, r.quanlifanwei, r.dengjihao>>

\* Serial numbers OCR may have reported in place of a record's own.
OtherSerials == {<<>>, <<"9", "8", "7", "6", "5", "4">>, <<SP, "7", "|">>}

\* The rows other have the numbers and fields of the rows emitted, in order.
SameNumbered(other) ==
    /\ Len(other) = Len(rows)
    /\ \A i \in 1..Len(rows) : Numbered(other[i]) = Numbered(rows[i])

\* C25: the serial number OCR reported has no part in the numbering or the
\* order of the rows: a list that differs from data_list in a record's 序号
\* alone gives rows with the same display numbers and fields in the same
\* order, and the cleaned serial number is found in the row's note only.
C25_SerialNeverNumbersOrOrders ==
    pc = "done" =>
        /\ \A k \in 1..Len(data_list), s \in OtherSerials :
              SameNumbered(generate_excel([data_list EXCEPT ![k].xuhao = s]))
        /\ \A i \in 1..Len(rows) :
              rows[i].beizhu
                  = IF clean_text(data_list[SurvivorAt(i)].xuhao) = <<>> THEN <<>>
                    ELSE <<"yuan", "xu", "hao", ":", " ">>
                         \o clean_text(data_list[SurvivorAt(i)].xuhao)

\* a record without a serial number before one with the serial 123456: the
\* rows are numbered 1, 2 and the second one's note holds the serial
C25_Witness ==
    /\ pc = "done"
    /\ Len(data_list) = 2 /\ Len(rows) = 2
    /\ data_list[1].xuhao = <<>>
    /\ data_list[2].xuhao = <<"1", "2", "3", "4", "5", "6">>
    /\ rows[1].xuhao = 1 /\ rows[2].xuhao = 2
    /\ rows[1].beizhu = <<>>
    /\ rows[2].beizhu = <<"yuan", "xu", "hao", ":", " ", "1", "2", "3", "4", "5", "6">>

(***************************************************************************)
(* clean_text applied again to its own result.                             *)
(***************************************************************************)
MaxCleanLen == 4
MaxCleanings == 2

CleanAlphabet == {"A", SP, NL, ".", "|", "ji1", "fu"}

InitClean ==
    /\ pc = "start"
    /\ text \in SeqsUpTo(CleanAlphabet, MaxCleanLen)
    /\ cleaned = <<>>
    /\ doc = <<>> /\ page = <<>> /\ gaps = <<>> /\ data = <<>> /\ parsed = <<>>
    /\ data_list = <<>> /\ rows = <<>>
    /\ IdleBatch /\ IdleTool

\* clean_text applied to the text, and then to what it last returned.
Clean ==
    /\ pc = "start"
    /\ Len(cleaned) < MaxCleanings
    /\ cleaned' = Append(cleaned, clean_text(IF cleaned = <<>> THEN text
                                             ELSE cleaned[Len(cleaned)]))
    /\ UNCHANGED <<pc, text, doc, page, gaps, data, parsed, data_list, rows, batchVars, toolVars>>

NextClean == Clean

SpecClean == InitClean /\ [][NextClean]_vars

\* C4: cleaning is idempotent: clean_text(clean_text(s)) = clean_text(s);
\* every further application returns what the first one returned.
C4_CleanIdempotent ==
    \A i \in 1..Len(cleaned) : cleaned[i] = cleaned[1]

\* Cleaning changed the text (noise removed, an edge stripped, whitespace
\* collapsed and a misreading fixed), and was then applied to its own result.
C4_Witness ==
    /\ Len(cleaned) >= 2
    /\ text = <<".", "ji1", "|", "fu">>
    /\ cleaned[1] = <<"xuan", "fu">>
    /\ cleaned[2] = <<"xuan", "fu">>

(***************************************************************************)
(* parse_copyright_text over a raw text.  The text is a preamble followed  *)
(* by pages, each written as extract_text_from_pdf writes it: the          *)
(* delimiter, a line break, the page's text, a line break.                 *)
(***************************************************************************)
MaxPages == 2


\* What precedes the first delimiter: nothing; whitespace; text without a
\* field; a line with a key field; a label whose value would be the delimiter.
PrePool ==
    {<<>>, <<SP, NL>>, <<"A", "B">>, T_line("zhuzuoquanren", <<"C">>) \o <<NL>>,
     labels.zhuzuoquanren \o <<":">>}

\* A page: empty; whitespace; text without a field; an owner line; a
\* registration line; a line of a field that is no key field; an owner label
\* with nothing after it.
PagePool ==
    {<<>>, <<SP>>, <<"A", "B">>,
     T_line("zhuzuoquanren", <<"A">>),
     T_line("dengjihao", <<"2", "0", "2", "1", "S", "R", "1">>),
     T_line("quanlifanwei", <<"A">>),
     labels.zhuzuoquanren \o <<":">>}

PageNumber(i) == CASE i = 1 -> "1" [] i = 2 -> "2" [] i = 3 -> "3" [] OTHER -> "4"

RECURSIVE RenderPages(_, _)
RenderPages(pages, i) ==
    IF i > Len(pages) THEN <<>>
    ELSE T_delim(PageNumber(i)) \o <<NL>> \o pages[i] \o <<NL>>
         \o RenderPages(pages, i + 1)

Render(d) == d.pre \o RenderPages(d.pages, 1)

InitParse ==
    /\ pc = "start"
    /\ doc \in [pre : PrePool, pages : SeqsUpTo(PagePool, MaxPages)]
    /\ text = Render(doc)
    /\ parsed = <<>>
    /\ page = <<>> /\ gaps = <<>> /\ data = <<>>
    /\ IdleClean /\ IdleBatch /\ IdleTool

ParseText ==
    /\ pc = "start"
    /\ parsed' = parse_copyright_text(text)
    /\ pc' = "done"
    /\ UNCHANGED <<text, doc, page, gaps, data, cleanVars, batchVars, toolVars>>

NextParse == ParseText

SpecParse == InitParse /\ [][NextParse]_vars

\* Every character of s is whitespace (the empty text included).
Blank(s) == \A i \in 1..Len(s) : IsSpace(s[i])

\* The number of delimiters of the text, and whether every page has text.
K == Len(doc.pages)
AllPagesNonEmpty == \A i \in 1..K : ~Blank(doc.pages[i])

\* C6 as stated: a text with k >= 1 delimiters whose page segments are all
\* non-empty has exactly k page blocks processed, one per delimiter; a text
\* with no delimiter that is not blank has exactly one, the whole trimmed
\* input.
C6_ExactlyKBlocks ==
    pc = "done" =>
        /\ (K >= 1 /\ AllPagesNonEmpty) =>
              /\ Len(parsed.blocks) = K
              /\ \A i \in 1..K : strip(parsed.blocks[i]) = strip(doc.pages[i])
        /\ (K = 0 /\ ~Blank(text)) =>
              /\ Len(parsed.blocks) = 1
              /\ strip(parsed.blocks[1]) = strip(text)

\* C6 as amended: the text before the first delimiter is a block of its own
\* when it is not blank.  With k >= 1 delimiters and every page non-empty the
\* blocks are that text (if not blank) and then the k page segments, in
\* order; with no delimiter and a text that is not blank there is one block,
\* the whole input.
C6_BlocksArePreambleAndPages ==
    pc = "done" =>
        /\ (K >= 1 /\ AllPagesNonEmpty) =>
              parsed.blocks =
                  (IF Blank(doc.pre) THEN <<>> ELSE <<doc.pre>>)
                  \o [i \in 1..K |-> <<NL>> \o doc.pages[i] \o <<NL>>]
        /\ (K = 0 /\ ~Blank(text)) => parsed.blocks = <<text>>

\* Two delimiters, two pages with text and a preamble with text: three blocks.
C6_Witness ==
    /\ pc = "done"
    /\ K = 2 /\ AllPagesNonEmpty /\ ~Blank(doc.pre)
    /\ Len(parsed.blocks) = 3

\* The blocks parse_copyright_text can take a record from: the preamble, the
\* pages, and the whole text (the fallback).
SomeBlockHasKey ==
    \/ any_key_field(_parse_single_block(doc.pre))
    \/ \E i \in 1..K : any_key_field(_parse_single_block(doc.pages[i]))
    \/ any_key_field(_parse_single_block(text))

\* C7: parse_copyright_text never returns an empty list: on a text that is
\* not blank and in which no block yields a key field it raises
\* ValidationError, and otherwise it returns at least one record.
C7_NeverReturnsEmptyList ==
    pc = "done" =>
        /\ parsed.raised = "none" => Len(parsed.results) >= 1
        /\ ~Blank(text) =>
              /\ ~SomeBlockHasKey => parsed.raised = "ValidationError"
              /\ SomeBlockHasKey =>
                    parsed.raised = "none" /\ Len(parsed.results) >= 1

\* Two pages of text without a field: the pages and the whole text are
\* parsed, and ValidationError is raised.
C7_Witness ==
    /\ pc = "done"
    /\ Len(parsed.blocks) = 2
    /\ parsed.fallback
    /\ parsed.raised = "ValidationError"

\* C8: on a text that is empty or only whitespace parse_copyright_text raises
\* ValidationError before it splits or extracts anything, and the error is
\* not turned into a ParsingError.
C8_BlankTextRaisesValidationError ==
    (pc = "done" /\ Blank(text)) =>
        /\ parsed.raised = "ValidationError"
        /\ ~parsed.split
        /\ parsed.blocks = <<>>
        /\ ~parsed.fallback
        /\ parsed.results = <<>>

\* A text of whitespace only was given, and ValidationError raised.
C8_Witness ==
    /\ pc = "done"
    /\ text = <<SP, NL>>
    /\ parsed.raised = "ValidationError"

\* The segments of the document in order, the preamble first, and those that
\* yield a record: the ones with text in which a key field is found.
Segments == <<doc.pre>> \o doc.pages
YieldsRecord(i) ==
    ~Blank(Segments[i]) /\ any_key_field(_parse_single_block(Segments[i]))

C24_EveryRecordHasKeyField ==
    pc = "done" =>
        /\ \A k \in 1..Len(parsed.results) :
              \E f \in {"xuhao", "dengjihao", "ruanjianmingcheng", "zhuzuoquanren"} :
                  parsed.results[k][f] # <<>>
        /\ parsed.raised = "none" =>
              Len(parsed.results)
                  <= IF parsed.fallback THEN 1
                     ELSE Cardinality({i \in 1..Len(Segments) :
                            \E f \in {"xuhao", "dengjihao", "ruanjianmingcheng",
                                       "zhuzuoquanren"} :
                                _parse_single_block(Segments[i])[f] # <<>>})

\* a page with 权利范围 alone and a page with an owner gave one record, the
\* owner's
C24_Witness ==
    /\ pc = "done" /\ parsed.raised = "none"
    /\ K = 2 /\ doc.pre = <<>>
    /\ doc.pages[1] = <<"quan", "li", "fan", "wei", ":", "A">>
    /\ _parse_single_block(doc.pages[1]).quanlifanwei = <<"A">>
    /\ Len(parsed.results) = 1
    /\ parsed.results[1].zhuzuoquanren = <<"A">>
    /\ parsed.results[1].quanlifanwei = <<>>

\* C22: when the text has delimited pages with text and no segment of it
\* yields a key field, parse_copyright_text raises ValidationError and
\* returns no record; the parse of the whole text as one block, which can
\* take a value across a page delimiter, gives no record then.
C22_NoRecordFromWholeTextWithPages ==
    (/\ pc = "done"
     /\ K >= 1
     /\ \E i \in 1..K : ~Blank(doc.pages[i])
     /\ \A i \in 1..Len(Segments) : ~YieldsRecord(i)) =>
        /\ parsed.raised = "ValidationError"
        /\ parsed.results = <<>>

(***************************************************************************)
(* _parse_single_block over a page of label lines.  The page holds, in the *)
(* certificate's order, the lines of the fields that are present; each     *)
(* line is indented and reads "<label>: <value>" ("No. <digits>" for the   *)
(* serial number).                                                         *)
(***************************************************************************)
MaxIndent == 1

FieldOrder ==
    <<"xuhao", "zhuzuoquanren", "ruanjianmingcheng", "shoucifabiaoriqi",
      "quanliqudefangshi", "quanlifanwei", "dengjihao">>
Fields == {FieldOrder[i] : i \in 1..Len(FieldOrder)}

\* The values of the test suite's certificate (测试公司, 测试软件V1.0,
\* 2021年12月1日, 原始取得, 全部权利, 2021SR0123456, 1234567) and some more.
ValuePool ==
    [xuhao : {<<"1", "2", "3", "4", "5", "6", "7">>},
     zhuzuoquanren : {<<"ce", "shi4", "gong", "si">>, <<"C", SP, "D">>},
     ruanjianmingcheng : {<<"ce", "shi4", "ruan", "jian">>,
                          <<"ce", "shi4", "ruan", "jian", "V", "1", ".", "0">>},
     shoucifabiaoriqi : {<<"2", "0", "2", "1", "nian", "1", "2", "yue", "1", "ri">>,
                         <<"wei4", "fa", "biao">>},
     quanliqudefangshi : {<<"yuan", "shi3", "qu", "de">>},
     quanlifanwei : {<<"quan2", "bu", "quan", "li">>},
     dengjihao : {<<"2", "0", "2", "1", "S", "R", "0", "1", "2", "3", "4", "5", "6">>}]

Indent(n) == [i \in 1..n |-> SP]

\* One line of the page: the indentation, the label, ": " (" " after No.),
\* the value.
FieldLine(f, value, n) ==
    Indent(n) \o labels[f]
        \o (IF f = "xuhao" THEN <<SP>> ELSE <<":", SP>>) \o value

\* The page text: a line break, the lines of the present fields in order,
\* each ended by a line break, and the closing indentation.
RECURSIVE PageLines(_, _)
PageLines(pg, i) ==
    IF i > Len(FieldOrder) THEN <<>>
    ELSE (IF FieldOrder[i] \in pg.present
          THEN FieldLine(FieldOrder[i], pg.values[FieldOrder[i]], pg.indent) \o <<NL>>
          ELSE <<>>) \o PageLines(pg, i + 1)

PageText(pg) == <<NL>> \o PageLines(pg, 1) \o Indent(pg.indent)

InitBlock ==
    /\ pc = "start"
    /\ page \in [present : SUBSET Fields, values : ValuePool, indent : 0..MaxIndent]
    /\ text = PageText(page)
    /\ data = <<>>
    /\ doc = <<>> /\ gaps = <<>> /\ parsed = <<>>
    /\ IdleClean /\ IdleBatch /\ IdleTool

ParseBlock ==
    /\ pc = "start"
    /\ data' = _parse_single_block(text)
    /\ pc' = "done"
    /\ UNCHANGED <<text, doc, page, gaps, parsed, cleanVars, batchVars, toolVars>>

NextBlock == ParseBlock

SpecBlock == InitBlock /\ [][NextBlock]_vars

\* C9: on a page with the seven lines in order (No., 著作权人, 软件名称,
\* 首次发表日期, 权利取得方式, 权利范围, 登记号), each field on its own
\* line, whatever the indentation, each of the seven fields extracted is
\* exactly the value written on its line.  The values are certificate values:
\* trimmed, not starting with punctuation, holding no label.
C9_CompletePageExact ==
    (pc = "done" /\ page.present = Fields) =>
        \A f \in Fields : data[f] = page.values[f]

\* An indented complete page whose name ends in a version was parsed.
C9_Witness ==
    /\ pc = "done"
    /\ page.present = Fields
    /\ page.indent > 0
    /\ data.ruanjianmingcheng = <<"ce", "shi4", "ruan", "jian", "V", "1", ".", "0">>
    /\ data.xuhao = <<"1", "2", "3", "4", "5", "6", "7">>

\* C10: on a page with the label lines of only some of the fields, each
\* present field is extracted as exactly the value on its own line, and each
\* absent field as the empty string.
C10_PartialPageExact ==
    pc = "done" =>
        \A f \in Fields :
            data[f] = IF f \in page.present THEN page.values[f] ELSE <<>>

(***************************************************************************)
(* _parse_single_block over one label line: the label, a separator or      *)
(* none with spaces around it, the value or nothing, and a following line  *)
(* or none.                                                                *)
(***************************************************************************)
MaxPad == 1

\* The separators a label line is written with.
Separators == {":", "fcolon", ";", "fsemi", ","}

\* Values OCR may give the pattern-constrained fields besides the
\* certificate's: digits of another script (１, ²), too few digits, a part
\* missing, text after the value.
NoisyValues ==
    [xuhao |-> {<<"fw1", "2", "3", "4", "5", "6">>,
                <<"1", "2", "3", "4", "5">>,
                <<"1", "2", "3", "4", "5", "6", "X">>,
                <<"1", "2", "3", "4", "5", "6", "sup2">>},
     dengjihao |-> {<<"2", "0", "2", "1", "S", "R", "1", "X">>,
                    <<"2", "0", "2", "1", "S", "R", "1", "fw1">>,
                    <<"fw1", "0", "2", "1", "S", "R", "1">>,
                    <<"2", "0", "2", "1", "S", "R">>},
     shoucifabiaoriqi |-> {<<"2", "0", "2", "1", "nian", "1", "yue", "1", "ri", "X">>,
                           <<"fw1", "0", "2", "1", "nian", "1", "yue", "fw1", "ri">>,
                           <<"2", "0", "2", "1", "nian", "1", "2", "3", "yue", "1", "ri">>,
                           <<"wei4", "fa", "biao", "X">>},
     zhuzuoquanren |-> {}, ruanjianmingcheng |-> {}, quanliqudefangshi |-> {},
     quanlifanwei |-> {}]

\* The text: "<label><spaces><separator><spaces><value>", and the following
\* line after a line break.
LabelLine(pg) ==
    labels[pg.field] \o Indent(pg.before) \o pg.sep \o Indent(pg.after)
        \o pg.value
        \o (IF pg.next = <<>> THEN <<>> ELSE <<NL>> \o pg.next)

InitLabelLine ==
    /\ pc = "start"
    /\ \E f \in Fields, pool \in ValuePool :
          page \in [field : {f},
                    before : 0..MaxPad,
                    sep : {<<>>} \cup {<<c>> : c \in Separators},
                    after : 0..MaxPad,
                    value : {<<>>, pool[f]} \cup NoisyValues[f],
                    next : {<<>>}
                           \cup {FieldLine(g, pool[g], 0) :
                                   g \in {"zhuzuoquanren", "ruanjianmingcheng",
                                          "shoucifabiaoriqi", "quanlifanwei",
                                          "dengjihao"} \ {f}}
                           \cup {<<"ban", "ben", "hao", ":", "1">>,
                                 <<"V", "1", ".", "0">>, <<"V", "X">>,
                                 <<"kai", "fa", "wan", "cheng2">>,
                                 <<"X">>, <<":", "X">>,
                                 <<":", "zhu", "zuo", "quan", "ren", "X">>}]
    /\ text = LabelLine(page)
    /\ data = <<>>
    /\ doc = <<>> /\ gaps = <<>> /\ parsed = <<>>
    /\ IdleClean /\ IdleBatch /\ IdleTool

SpecLabelLine == InitLabelLine /\ [][NextBlock]_vars

\* C19: for each of the seven fields and each separator of : ： ; ； , the
\* line "<label><separator><value>", with or without spaces around the
\* separator, yields the value that "<label><value>" yields, and the
\* separator is not part of the value extracted.
C19_AnySeparatorTolerated ==
    (pc = "done" /\ page.sep # <<>> /\ page.value # <<>> /\ page.next = <<>>) =>
        /\ data[page.field]
             = _parse_single_block(labels[page.field] \o page.value)[page.field]
        /\ ~Contains(data[page.field], page.sep)

\* C20: when the label of 著作权人, 权利取得方式 or 权利范围 is followed by
\* nothing on its own line, the field stays empty: it takes no text from the
\* following line.
C20_RestOfLineStaysOnItsLine ==
    (/\ pc = "done"
     /\ page.field \in {"zhuzuoquanren", "quanliqudefangshi", "quanlifanwei"}
     /\ page.value = <<>>
     /\ page.next # <<>>) =>
        data[page.field] = <<>>

\* The line begins with 著作权人, 版本号, V and a digit, 首次发表, 权利 or
\* 开发完成.
BeginsOtherField(line) ==
    \/ \E w \in {<<"zhu", "zuo", "quan", "ren">>, <<"ban", "ben", "hao">>,
                 <<"shou", "ci", "fa", "biao">>, <<"quan", "li">>,
                 <<"kai", "fa", "wan", "cheng2">>} : OccursAt(line, 1, w)
    \/ (Len(line) >= 2 /\ line[1] = "V"
          /\ line[2] \in {"0", "1", "2", "3", "4", "5", "6", "7", "8", "9"})

\* The line without the colon it begins with, if any.
WithoutLeadingColon(line) ==
    IF line # <<>> /\ line[1] \in {":", "fcolon"} THEN Tail(line) ELSE line

\* C21: the line that follows the 软件名称 line is appended to the name, after
\* one space and without its leading colon, unless it begins with 著作权人,
\* 版本号, V and a digit, 首次发表, 权利 or 开发完成; then, and when no line
\* follows, the name is what remains of the first line after the label.
C21_NameContinuation ==
    (/\ pc = "done"
     /\ page.field = "ruanjianmingcheng"
     /\ page.sep \in {<<>>, <<":">>}) =>
        data.ruanjianmingcheng
            = IF page.next = <<>> \/ BeginsOtherField(page.next)
              THEN page.value
              ELSE page.value \o <<SP>> \o WithoutLeadingColon(page.next)

(***************************************************************************)
(* _parse_single_block over a label line in which OCR has put whitespace   *)
(* between the label's characters.                                         *)
(***************************************************************************)
MaxGap == 3

LabelledFields == Fields \ {"xuhao"}

\* The label with gaps[k] whitespace characters ws after its k-th character.
RECURSIVE SpacedLabel(_, _, _, _)
SpacedLabel(label, g, ws, k) ==
    IF k > Len(label) THEN <<>>
    ELSE <<label[k]>>
         \o (IF k < Len(label) THEN [i \in 1..g[k] |-> ws] ELSE <<>>)
         \o SpacedLabel(label, g, ws, k + 1)

\* The line "<label>:<value>" with the label spaced.
SpacedLine(pg, g) ==
    SpacedLabel(labels[pg.field], g, pg.ws, 1) \o <<":">> \o pg.value

NoGaps(f) == [k \in 1..(Len(labels[f]) - 1) |-> 0]

InitSpacing ==
    /\ pc = "start"
    /\ \E f \in LabelledFields, ws \in {SP, TAB, NL} :
          /\ page = [field |-> f, ws |-> ws,
                     value |-> (CHOOSE v \in ValuePool : TRUE)[f]]
          /\ gaps = NoGaps(f)
    /\ text = SpacedLine(page, gaps)
    /\ data = <<>>
    /\ doc = <<>> /\ parsed = <<>>
    /\ IdleClean /\ IdleBatch /\ IdleTool

\* OCR puts one more whitespace character between two label characters.
InsertSpace ==
    /\ pc = "start"
    /\ \E k \in DOMAIN gaps :
          /\ gaps[k] < MaxGap
          /\ gaps' = [gaps EXCEPT ![k] = @ + 1]
    /\ text' = SpacedLine(page, gaps')
    /\ UNCHANGED <<pc, doc, page, data, parsed, cleanVars, batchVars, toolVars>>

ParseSpaced ==
    /\ pc = "start"
    /\ data' = _parse_single_block(text)
    /\ pc' = "done"
    /\ UNCHANGED <<text, doc, page, gaps, parsed, cleanVars, batchVars, toolVars>>

NextSpacing == InsertSpace \/ ParseSpaced

SpecSpacing == InitSpacing /\ [][NextSpacing]_vars

\* C5: for every field label, 0 to 3 whitespace characters between each pair
\* of adjacent label characters do not change the value extracted for that
\* field: it is the value extracted from the line with the label unspaced.
C5_LabelSpacingTolerated ==
    pc = "done" =>
        data[page.field]
            = _parse_single_block(SpacedLine(page, NoGaps(page.field)))[page.field]

(***************************************************************************)
(* validate_field.  Besides the characters above, a value may hold fw1,    *)
(* the full-width digit １ (a decimal digit: \d and str.isdigit accept     *)
(* it), and sup2, the superscript ² (str.isdigit accepts it, \d does not). *)
(***************************************************************************)

\* "$" without re.MULTILINE: at the end of the string, or before a line
\* break that ends it.
AtDollar(v, e) == e = Len(v) + 1 \/ (e = Len(v) /\ v[e] = NL)

\* bool(re.match(r'^\d{4}SR\d+$', v))
reg_validator(v) ==
    /\ Len(v) >= 7
    /\ \A k \in 1..4 : IsDecimal(v[k])
    /\ v[5] = "S" /\ v[6] = "R"
    /\ \E e \in 8..(Len(v) + 1) :
          (\A k \in 7..(e - 1) : IsDecimal(v[k])) /\ AtDollar(v, e)

\* A validator of 序号 that wants more than six digits.
serial_validator_over_six(v) ==
    (\A k \in 1..Len(v) : IsDecimal(v[k]) \/ v[k] = "sup2") /\ Len(v) > 6

\* v.isdigit() and len(v) >= 6; isdigit is false on the empty string, which
\* validate_field has returned on before.
serial_validator(v) ==
    (\A k \in 1..Len(v) : IsDecimal(v[k]) \/ v[k] = "sup2") /\ Len(v) >= 6

\* bool(re.match(r'^\d{4}年\d{1,2}月\d{1,2}日$', v)) or v == '未发表'
date_validator(v) ==
    \/ \E m \in 1..2, d \in 1..2 :
          /\ Len(v) >= 7 + m + d
          /\ \A k \in 1..4 : IsDecimal(v[k])
          /\ v[5] = "nian"
          /\ \A k \in 6..(5 + m) : IsDecimal(v[k])
          /\ v[6 + m] = "yue"
          /\ \A k \in (7 + m)..(6 + m + d) : IsDecimal(v[k])
          /\ v[7 + m + d] = "ri"
          /\ AtDollar(v, 8 + m + d)
    \/ v = <<"wei4", "fa", "biao">>

\* A validate_field whose default rule does not trim the value.
validate_field_untrimmed(field_name, v) ==
    IF v = <<>> \/ strip(v) = <<>> THEN FALSE
    ELSE CASE field_name = "dengjihao" -> reg_validator(v)
           [] field_name = "xuhao" -> serial_validator(v)
           [] field_name = "shoucifabiaoriqi" -> date_validator(v)
           [] OTHER -> Len(v) >= 2

\* validate_field(field_name, value)
validate_field(field_name, v) ==
    IF v = <<>> \/ strip(v) = <<>> THEN FALSE
    ELSE CASE field_name = "dengjihao" -> reg_validator(v)
           [] field_name = "xuhao" -> serial_validator(v)
           [] field_name = "shoucifabiaoriqi" -> date_validator(v)
           [] OTHER -> Len(strip(v)) >= 2

\* The values validate_field is given: what stands before, a core, what
\* stands after.  The cores are registration numbers, dates and serial
\* numbers, well formed or with a part missing or replaced, and short texts.
ValidateValues ==
    LET years == {<<>>, <<"2", "0", "2", "1">>, <<"2", "0", "2">>,
                  <<"fw1", "0", "2", "1">>}
        regs == {y \o m \o d :
                    y \in years, m \in {<<"S", "R">>, <<"X", "X">>},
                    d \in {<<>>, <<"1">>, <<"0", "1", "2", "3", "4", "5", "6">>,
                           <<"1", "X">>}}
        dates == {y \o a \o m \o b \o d \o c :
                    y \in years, a \in {<<"nian">>, <<"-">>},
                    m \in {<<"1">>, <<"1", "2">>, <<"1", "2", "3">>},
                    b \in {<<"yue">>, <<"-">>},
                    d \in {<<>>, <<"1">>, <<"3", "1">>},
                    c \in {<<>>, <<"ri">>}}
        serials == {<<"1", "2", "3", "4", "5">>, <<"1", "2", "3", "4", "5", "6">>,
                    <<"1", "2", "3", "4", "5", "6", "7">>,
                    <<"A", "B", "C", "1", "2", "3">>,
                    <<"fw1", "2", "3", "4", "5", "6">>,
                    <<"sup2", "2", "3", "4", "5", "6">>}
        texts == {<<>>, <<"A">>, <<"A", "B">>, <<"A", SP, "B">>,
                  <<"wei4", "fa", "biao">>}
    IN  {pre \o core \o post :
            pre \in {<<>>, <<SP>>, <<"X">>},
            core \in regs \cup dates \cup serials \cup texts,
            post \in {<<>>, <<NL>>, <<SP>>, <<"X">>, <<NL, NL>>}}

InitValidate ==
    /\ pc = "start"
    /\ field \in {"dengjihao", "xuhao", "shoucifabiaoriqi", "zhuzuoquanren",
                  "ruanjianmingcheng"}
    /\ field_value \in ValidateValues
    /\ is_valid = FALSE
    /\ IdleParse /\ IdleClean /\ IdleBatch /\ IdleCli /\ IdlePdf

Validate ==
    /\ pc = "start"
    /\ is_valid' = validate_field(field, field_value)
    /\ pc' = "done"
    /\ UNCHANGED <<field, field_value, parseVars, cleanVars, batchVars, cli,
                   exit_status, pdfVars>>

NextValidate == Validate

SpecValidate == InitValidate /\ [][NextValidate]_vars

\* "4 digits, SR, one or more digits and nothing else", a digit being what
\* the pattern's \d takes.
IsRegNumber(v) ==
    /\ Len(v) >= 7
    /\ \A k \in 1..4 : IsDecimal(v[k])
    /\ v[5] = "S" /\ v[6] = "R"
    /\ \A k \in 7..Len(v) : IsDecimal(v[k])

\* C11: validate_field('登记号', v) is true exactly when v is 4 digits, then
\* SR, then one or more digits and nothing else.
C11_RegistrationNumberExact ==
    (pc = "done" /\ field = "dengjihao") => (is_valid <=> IsRegNumber(field_value))

\* C12: validate_field('序号', v) is true exactly when v consists only of
\* digits (the characters str.isdigit calls digits) and has length at least 6.
C12_SerialDigitsAtLeastSix ==
    (pc = "done" /\ field = "xuhao") =>
        (is_valid <=>
            /\ Len(field_value) >= 6
            /\ \A k \in 1..Len(field_value) :
                  IsDecimal(field_value[k]) \/ field_value[k] = "sup2")

\* a six-digit serial number was found valid
C12_Witness ==
    /\ pc = "done" /\ field = "xuhao"
    /\ field_value = <<"1", "2", "3", "4", "5", "6">>
    /\ is_valid

\* "<4 digits>年<1-2 digits>月<1-2 digits>日 with nothing before or after".
IsDate(v) ==
    \E m \in 1..2, d \in 1..2 :
        /\ Len(v) = 7 + m + d
        /\ \A k \in 1..4 : IsDecimal(v[k])
        /\ v[5] = "nian"
        /\ \A k \in 6..(5 + m) : IsDecimal(v[k])
        /\ v[6 + m] = "yue"
        /\ \A k \in (7 + m)..(6 + m + d) : IsDecimal(v[k])
        /\ v[7 + m + d] = "ri"

\* C13: validate_field('首次发表日期', v) is true exactly when v is a date
\* <4 digits>年<1-2 digits>月<1-2 digits>日 with nothing before or after, or
\* v equals 未发表.
C13_DateExact ==
    (pc = "done" /\ field = "shoucifabiaoriqi") =>
        (is_valid <=> (IsDate(field_value) \/ field_value = <<"wei4", "fa", "biao">>))

\* C14: validate_field is false on an empty or whitespace-only value,
\* whatever the field; for a field other than 登记号, 序号 and 首次发表日期
\* it is true exactly when the trimmed value has length at least 2.
C14_BlankInvalidAndDefaultRule ==
    pc = "done" =>
        /\ strip(field_value) = <<>> => ~is_valid
        /\ field \notin {"dengjihao", "xuhao", "shoucifabiaoriqi"} =>
              (is_valid <=> Len(strip(field_value)) >= 2)

\* a value of three characters whose trimmed length is 1 was found invalid
\* for 著作权人
C14_Witness ==
    /\ pc = "done" /\ field = "zhuzuoquanren"
    /\ field_value = <<SP, "A", SP>>
    /\ ~is_valid

(***************************************************************************)
(* The values the extractor returns, under validate_field.                 *)
(***************************************************************************)

\* C27: whatever the page text, a value _parse_single_block returns that is
\* not empty passes its field's validator, for the three fields whose
\* pattern constrains the value: 登记号, 序号 and 首次发表日期.
C27_ExtractedValuesPassValidators ==
    pc = "done" =>
        \A f \in {"dengjihao", "xuhao", "shoucifabiaoriqi"} :
            data[f] # <<>> => validate_field(f, data[f])

\* a serial number that begins with a full-width digit was extracted whole,
\* and the registration number of the following line with it
C27_Witness ==
    /\ pc = "done"
    /\ page.field = "xuhao"
    /\ page.value = <<"fw1", "2", "3", "4", "5", "6">>
    /\ data.xuhao = <<"fw1", "2", "3", "4", "5", "6">>
    /\ data.dengjihao = <<"2", "0", "2", "1", "S", "R", "0", "1", "2", "3", "4", "5", "6">>

(***************************************************************************)
(* The command-line entry points of parse_copyright.py and extract_ocr.py. *)
(* cli tells the program, whether a path was given and names a file, what  *)
(* the file holds (the text, or the text OCR gives) and what goes wrong    *)
(* ("none" when nothing does).                                             *)
(***************************************************************************)

\* parse_copyright.py: what ends the run ("none": the JSON was printed).  An
\* unexpected exception inside parse_copyright_text's try block is turned
\* into ParsingError; the blank check stands before the try block.
parse_main_error(c) ==
    IF ~c.has_arg THEN "usage"
    ELSE IF ~c.file_exists THEN "FileNotFoundError"
    ELSE IF c.fault = "interrupt" THEN "KeyboardInterrupt"
    ELSE IF c.fault = "internal" /\ ~is_blank(c.text) THEN "ParsingError"
    ELSE parse_copyright_text(c.text).raised

\* The except clauses of parse_copyright.py and the status each exits with.
parse_main_exit(e) ==
    CASE e = "none" -> 0
      [] e = "usage" -> 1
      [] e = "FileNotFoundError" -> 1
      [] e = "ValidationError" -> 1
      [] e = "ParsingError" -> 1
      [] e = "KeyboardInterrupt" -> 130
      [] OTHER -> 1

\* extract_ocr.py: what ends the run ("none": the text was printed).
ocr_main_error(c) ==
    IF ~c.has_arg THEN "usage"
    ELSE IF c.fault = "dependency" THEN "DependencyError"
    ELSE IF c.fault = "interrupt" THEN "KeyboardInterrupt"
    ELSE IF ~c.file_exists \/ c.suffix \notin supported_extensions
              \/ c.fault = "internal"
         THEN "OCRError"
    ELSE IF c.text = <<>> THEN "no_text"
    ELSE "none"

\* The except clauses of extract_ocr.py and the status each exits with.
ocr_main_exit(e) ==
    CASE e = "none" -> 0
      [] e = "usage" -> 1
      [] e = "no_text" -> 1
      [] e = "DependencyError" -> 2
      [] e = "OCRError" -> 1
      [] e = "KeyboardInterrupt" -> 130
      [] OTHER -> 1

\* The runs: a field a run does not come to has its first value.
CliPool ==
    {c \in [program : {"parse_copyright", "extract_ocr"},
            has_arg : BOOLEAN, file_exists : BOOLEAN,
            suffix : {".pdf", ".png", ".txt"},
            fault : {"none", "dependency", "internal", "interrupt"},
            text : BatchTexts \cup {<<SP, NL>>}] :
        /\ ~c.has_arg => (c.file_exists /\ c.fault = "none")
        /\ (~c.has_arg \/ ~c.file_exists) => (c.suffix = ".pdf" /\ c.text = <<>>)
        /\ c.program = "parse_copyright" =>
              (c.suffix = ".pdf" /\ c.fault # "dependency")
        /\ c.fault = "dependency" => c.file_exists}

InitCli ==
    /\ pc = "start"
    /\ cli \in CliPool
    /\ exit_status = 0
    /\ IdleParse /\ IdleClean /\ IdleBatch /\ IdleValidate /\ IdlePdf

ParseMain ==
    /\ pc = "start"
    /\ cli.program = "parse_copyright"
    /\ error' = parse_main_error(cli)
    /\ exit_status' = parse_main_exit(parse_main_error(cli))
    /\ pc' = "done"
    /\ UNCHANGED <<cli, parseVars, cleanVars, files, next_file, results,
                   processed_count, field, field_value, is_valid, pdfVars>>

OcrMain ==
    /\ pc = "start"
    /\ cli.program = "extract_ocr"
    /\ error' = ocr_main_error(cli)
    /\ exit_status' = ocr_main_exit(ocr_main_error(cli))
    /\ pc' = "done"
    /\ UNCHANGED <<cli, parseVars, cleanVars, files, next_file, results,
                   processed_count, field, field_value, is_valid, pdfVars>>

NextCli == ParseMain \/ OcrMain

SpecCli == InitCli /\ [][NextCli]_vars

\* The error kinds, and the kind of what ended a run: a failure to acquire
\* the text (a missing dependency, an unreadable file, an unsupported
\* format, a failed OCR), a validation failure, a parsing failure.
ErrorKinds == {"acquisition", "validation", "parsing"}
KindOf(e) ==
    CASE e \in {"DependencyError", "OCRError", "FileNotFoundError"} -> "acquisition"
      [] e = "ValidationError" -> "validation"
      [] e = "ParsingError" -> "parsing"
      [] OTHER -> "other"

\* C16: at the command-line entry points, a run ended by an error of one
\* kind exits with a status that is not zero and that no error of another
\* kind exits with, at either entry point.
C16_ExitStatusTellsErrorKind ==
    (pc = "done" /\ KindOf(error) \in ErrorKinds) =>
        /\ exit_status # 0
        /\ \A e \in {"FileNotFoundError", "ValidationError", "ParsingError"} :
              KindOf(e) # KindOf(error) => parse_main_exit(e) # exit_status
        /\ \A e \in {"DependencyError", "OCRError"} :
              KindOf(e) # KindOf(error) => ocr_main_exit(e) # exit_status

(***************************************************************************)
(* extract_text_from_pdf over a PDF.  The PDF is converted to its pages or *)
(* the conversion raises; on each page image_to_string returns a text or   *)
(* raises TesseractError.                                                  *)
(***************************************************************************)
MaxPdfPages == 3

\* page_entry with a page on which OCR fails left out of the text.
page_entry_dropping_failed(i, image) ==
    IF image.ocr_fails THEN <<>>
    ELSE T_delim(PageNumber(i)) \o <<NL>> \o image.ocr_text \o <<NL>>

\* What the loop adds to full_text for page i: the delimiter, a line break,
\* the page's text or "[OCR FAILED]", a line break.
page_entry(i, image) ==
    T_delim(PageNumber(i)) \o <<NL>>
    \o (IF image.ocr_fails
        THEN <<"[", "O", "C", "R", SP, "F", "A", "I", "L", "E", "D", "]">>
        ELSE image.ocr_text)
    \o <<NL>>

\* The pages of a PDF: OCR fails, or finds no text, a text without a field,
\* or an owner line.
ImagePool ==
    {[ocr_fails |-> TRUE, ocr_text |-> <<>>]}
    \cup [ocr_fails : {FALSE},
          ocr_text : {<<>>, <<"A", NL, "B">>, T_line("zhuzuoquanren", <<"A">>)}]

InitPdf ==
    /\ pc \in {"start", "unreadable"}
    /\ images \in SeqsUpTo(ImagePool, MaxPdfPages)
    /\ pc = "unreadable" => images = <<>>
    /\ page_no = 1
    /\ full_text = <<>>
    /\ IdleParse /\ IdleClean /\ IdleBatch /\ IdleValidate /\ IdleCli

\* convert_from_path raises: the function raises OCRError.
ConvertRaises ==
    /\ pc = "unreadable"
    /\ pc' = "aborted"
    /\ error' = "OCRError"
    /\ UNCHANGED <<pdfVars, parseVars, cleanVars, files, next_file, results,
                   processed_count, field, field_value, is_valid, cli, exit_status>>

\* convert_from_path returns the pages; full_text = "".
Convert ==
    /\ pc = "start"
    /\ pc' = "loop"
    /\ UNCHANGED <<pdfVars, parseVars, cleanVars, batchVars, field, field_value,
                   is_valid, cli, exit_status>>

\* One round of the loop, the except branch included.
OcrPage ==
    /\ pc = "loop"
    /\ page_no <= Len(images)
    /\ full_text' = full_text \o page_entry(page_no, images[page_no])
    /\ page_no' = page_no + 1
    /\ UNCHANGED <<pc, images, parseVars, cleanVars, batchVars, field,
                   field_value, is_valid, cli, exit_status>>

\* return full_text
ReturnText ==
    /\ pc = "loop"
    /\ page_no > Len(images)
    /\ pc' = "done"
    /\ UNCHANGED <<pdfVars, parseVars, cleanVars, batchVars, field, field_value,
                   is_valid, cli, exit_status>>

NextPdf == ConvertRaises \/ Convert \/ OcrPage \/ ReturnText

SpecPdf == InitPdf /\ [][NextPdf]_vars

\* What page i has to be followed by: its OCR text, or the placeholder.
PageBody(i) ==
    IF images[i].ocr_fails
    THEN <<"[", "O", "C", "R", SP, "F", "A", "I", "L", "E", "D", "]">>
    ELSE images[i].ocr_text

\* Where the delimiter of page i has to start in the text returned: after
\* the delimiters, the texts and the line breaks of the pages before it.
RECURSIVE PageStart(_)
PageStart(i) ==
    IF i = 1 THEN 1
    ELSE PageStart(i - 1) + Len(T_delim(PageNumber(i - 1))) + 1
         + Len(PageBody(i - 1)) + 1

\* C18: for a PDF of n pages the text returned holds the delimiter
\* "--- Page i ---" for every i in 1..n, in increasing order of i, each
\* followed at once by the page's OCR text; a page on which OCR failed has
\* the placeholder for text, and the pages after it are there all the same.
C18_EveryPageDelimitedInOrder ==
    pc = "done" =>
        /\ \A i \in 1..Len(images) :
              OccursAt(full_text, PageStart(i),
                       T_delim(PageNumber(i)) \o <<NL>> \o PageBody(i) \o <<NL>>)
        /\ PageStart(Len(images) + 1) = Len(full_text) + 1
        /\ Len(re_split(full_text)) = Len(images) + 1

\* a PDF of three pages, OCR failing on the second, was returned whole
C18_Witness ==
    /\ pc = "done"
    /\ Len(images) = 3
    /\ ~images[1].ocr_fails /\ images[2].ocr_fails /\ ~images[3].ocr_fails
    /\ images[3].ocr_text = <<"zhu", "zuo", "quan", "ren", ":", "A">>
    /\ Contains(full_text, T_delim("3") \o <<NL>> \o images[3].ocr_text)

====
